---- MODULE Spec2Model ----
(***************************************************************************)
(* Model of mut_elems.rs: simultaneous mutable access to several elements  *)
(* of a slice.  The slice is the sequence `target`; a mutable reference to *)
(* an element is modelled by the 0-based position of the element it points *)
(* to, so two references alias exactly when they are the same position.    *)
(* Index lists are TLA+ sequences; every position that the code reports    *)
(* (first, second, position) is kept 0-based as in the source.             *)
(***************************************************************************)
EXTENDS Integers, Sequences, FiniteSets, TLC

\* ------------------------------------------------------------------ bounds
MaxLen == 3
MaxN == 3

\* ------------------------------------------------------------ data model
\* indices[i] of the source (0-based) on a TLA+ sequence.
At(s, i) == s[i + 1]

\* The test arrays [1u8, 2, 3, 4], cut to length L.
TestArray(L) == [i \in 1..L |-> i]

\* The values the tests write through the handles.
WriteValues == {5, 7}

\* Values an index may take: every in-range position of the longest slice
\* and one position past its end.
IndexValues == 0..MaxLen

RECURSIVE SeqsOfLen(_, _)
SeqsOfLen(S, n) ==
    IF n = 0 THEN {<<>>}
    ELSE {Append(s, x) : s \in SeqsOfLen(S, n - 1), x \in S}

\* The arrays [usize; N] a caller can pass, N = 0..MaxN.
IndexLists == UNION {SeqsOfLen(IndexValues, n) : n \in 0..MaxN}

\* MutElemsError and the Ok value of Result<[&mut T; N], MutElemsError>.
IndicesOverlap(f, s, ix) ==
    [kind |-> "IndicesOverlap", first |-> f, second |-> s, index |-> ix]

IndexBound(p, ix, len) ==
    [kind |-> "IndexBound", position |-> p, index |-> ix, length |-> len]

Ok(hs) == [kind |-> "Ok", handles |-> hs]

\* No error found by a check / no Result held by the caller.
NoResult == [kind |-> "none"]

\* A handle through which nothing has been written yet.
NoWrite == {}

\* ------------------------------------------------------- pure functions
\* HashMap::with_capacity(indices.len()): a fresh, empty map.
NewSeen(indices) == [v \in {} |-> 0]

\* Mutant: the conflict is reported with first and second exchanged.
ScanSeenSwapped(indices, i, seen) ==
    LET RECURSIVE Go(_, _)
        Go(k, sn) ==
            IF k >= Len(indices) THEN NoResult
            ELSE LET ix == At(indices, k) IN
                 IF ix \in DOMAIN sn
                 THEN IndicesOverlap(k, sn[ix], ix)
                 ELSE Go(k + 1, sn @@ (ix :> k))
    IN Go(i, seen)

\* The general distinctness scan (N > 2): the loop over
\* indices.iter().enumerate() from position i on, with the map seen.
RECURSIVE ScanSeen(_, _, _)
ScanSeen(indices, i, seen) ==
    IF i >= Len(indices) THEN NoResult
    ELSE LET ix == At(indices, i) IN
         IF ix \in DOMAIN seen
         THEN IndicesOverlap(seen[ix], i, ix)
         ELSE ScanSeen(indices, i + 1, seen @@ (ix :> i))

\* Mutant: N = 2 falls into the arm that checks nothing.
CheckDistinctSkipTwo(indices) ==
    IF Len(indices) <= 2 THEN NoResult
    ELSE ScanSeen(indices, 0, NewSeen(indices))

\* match N { 0 | 1 => (), 2 => compare, _ => scan }.  The N = 2 arm
\* fills first and second with the VALUES indices[0] and indices[1].
CheckDistinct(indices) ==
    CASE Len(indices) \in {0, 1} -> NoResult
      [] Len(indices) = 2 ->
            IF At(indices, 0) = At(indices, 1)
            THEN IndicesOverlap(At(indices, 0), At(indices, 1), At(indices, 0))
            ELSE NoResult
      [] OTHER -> ScanSeen(indices, 0, NewSeen(indices))

\* Mutant: the length is read from the first element of the slice.
NselfFromContents(self) == IF Len(self) > 0 THEN self[1] ELSE 0

\* let nself = self.len();
Nself(self) == Len(self)

\* Mutant: the comparison is > instead of >=.
CheckBoundsOffByOne(indices, i, nself) ==
    LET bad == {k \in i..(Len(indices) - 1) : At(indices, k) > nself} IN
    IF bad = {} THEN NoResult
    ELSE LET k == CHOOSE m \in bad : \A o \in bad : m <= o IN
         IndexBound(k, At(indices, k), nself)

\* Mutant: the scan runs from the last entry to the first.
CheckBoundsFromEnd(indices, i, nself) ==
    LET bad == {k \in i..(Len(indices) - 1) : At(indices, k) >= nself} IN
    IF bad = {} THEN NoResult
    ELSE LET k == CHOOSE m \in bad : \A o \in bad : m >= o IN
         IndexBound(k, At(indices, k), nself)

\* The bounds loop over indices.iter().enumerate() from position i on.
RECURSIVE CheckBounds(_, _, _)
CheckBounds(indices, i, nself) ==
    IF i >= Len(indices) THEN NoResult
    ELSE IF At(indices, i) >= nself
         THEN IndexBound(i, At(indices, i), nself)
         ELSE CheckBounds(indices, i + 1, nself)

\* Mutant: the closure takes element i instead of element indices[i].
ElemPtrIgnoresIndices(self, indices, i) == i

\* The closure of from_fn in mut_elems:
\* &mut *(self.get_unchecked_mut(*indices.get_unchecked(i)) as *mut T).
ElemPtr(self, indices, i) == At(indices, i)

\* The part of mut_elems after the distinctness check; from_fn calls the
\* closure for i = 0..N-1 in order.
BoundsAndBuild(self, indices) ==
    LET b == CheckBounds(indices, 0, Nself(self)) IN
    IF b.kind # "none" THEN b
    ELSE Ok([k \in 1..Len(indices) |-> ElemPtr(self, indices, k - 1)])

\* Mutant: the bounds check runs before the distinctness check.
mut_elems_bounds_first(self, indices) ==
    LET b == CheckBounds(indices, 0, Nself(self)) IN
    IF b.kind # "none" THEN b
    ELSE LET d == CheckDistinct(indices) IN
         IF d.kind # "none" THEN d
         ELSE Ok([k \in 1..Len(indices) |-> ElemPtr(self, indices, k - 1)])

\* <[T] as MutElemsExt<T>>::mut_elems.
mut_elems(self, indices) ==
    LET d == CheckDistinct(indices) IN
    IF d.kind # "none" THEN d ELSE BoundsAndBuild(self, indices)

\* <[T; N] as AsMutElemsExt<N, T>>::as_mut_elems: from_fn over
\* |i| self.get_unchecked_mut(i).
as_mut_elems(self) == [k \in 1..Len(self) |-> k - 1]

\* Mutant: the references are collected in reverse iteration order.
as_mut_elems_vec_rev(self) == [i \in 1..Len(self) |-> Len(self) - i]

\* <V as AsMutElemsVecExt<T>>::as_mut_elems_vec: iter_mut() in order.
RECURSIVE IterMutCollect(_, _)
IterMutCollect(self, i) ==
    IF i >= Len(self) THEN <<>> ELSE <<i>> \o IterMutCollect(self, i + 1)

as_mut_elems_vec(self) == IterMutCollect(self, 0)

\* ----------------------------------------------------------------- state
VARIABLES
    target,   \* the slice
    pc,       \* "idle": no borrow; "live": handles held; "failed": Err held
    op,       \* the operation that made the current borrow or Err
    indices,  \* the index list of the current mut_elems call
    result,   \* the Result of the current mut_elems call
    es,       \* the live handles, each the position it refers to
    written,  \* per handle: {the last value written through it}, or NoWrite
    pre       \* the slice as it was when the current call was made

vars == <<target, pc, op, indices, result, es, written, pre>>

Init ==
    /\ target \in {TestArray(L) : L \in 0..MaxLen}
    /\ pc = "idle"
    /\ op = "none"
    /\ indices = <<>>
    /\ result = NoResult
    /\ es = <<>>
    /\ written = <<>>
    /\ pre = target

\* test_array.mut_elems(&ix)
MutElems(ix) ==
    /\ pc = "idle"
    /\ LET r == mut_elems(target, ix) IN
        /\ result' = r
        /\ es' = IF r.kind = "Ok" THEN r.handles ELSE <<>>
        /\ pc' = IF r.kind = "Ok" THEN "live" ELSE "failed"
        /\ written' = IF r.kind = "Ok" THEN [i \in 1..Len(r.handles) |-> NoWrite]
                      ELSE <<>>
    /\ op' = "mut_elems"
    /\ indices' = ix
    /\ pre' = target
    /\ UNCHANGED target

\* let es = test_array.as_mut_elems();
AsMutElems ==
    /\ pc = "idle"
    /\ es' = as_mut_elems(target)
    /\ written' = [i \in 1..Len(es') |-> NoWrite]
    /\ pc' = "live"
    /\ op' = "as_mut_elems"
    /\ indices' = <<>>
    /\ result' = NoResult
    /\ pre' = target
    /\ UNCHANGED target

\* let mut es = test_vec.as_mut_elems_vec();
AsMutElemsVec ==
    /\ pc = "idle"
    /\ es' = as_mut_elems_vec(target)
    /\ written' = [i \in 1..Len(es') |-> NoWrite]
    /\ pc' = "live"
    /\ op' = "as_mut_elems_vec"
    /\ indices' = <<>>
    /\ result' = NoResult
    /\ pre' = target
    /\ UNCHANGED target

\* *es[i] = w;  (i is 0-based)
Write(i, w) ==
    /\ pc = "live"
    /\ i \in 0..(Len(es) - 1)
    /\ target' = [target EXCEPT ![At(es, i) + 1] = w]
    /\ written' = [written EXCEPT ![i + 1] = {w}]
    /\ UNCHANGED <<pc, op, indices, result, es, pre>>

\* The handles go out of scope; the slice is usable again.
Drop ==
    /\ pc = "live"
    /\ pc' = "idle"
    /\ op' = "none"
    /\ indices' = <<>>
    /\ result' = NoResult
    /\ es' = <<>>
    /\ written' = <<>>
    /\ pre' = target
    /\ UNCHANGED target

\* The caller has matched on the Err and lets it go.
HandleErr ==
    /\ pc = "failed"
    /\ pc' = "idle"
    /\ op' = "none"
    /\ indices' = <<>>
    /\ result' = NoResult
    /\ pre' = target
    /\ UNCHANGED <<target, es, written>>

Next ==
    \/ \E ix \in IndexLists : MutElems(ix)
    \/ AsMutElems
    \/ AsMutElemsVec
    \/ \E i \in 0..(Len(es) - 1), w \in WriteValues : Write(i, w)
    \/ Drop
    \/ HandleErr

Spec == Init /\ [][Next]_vars

\* ------------------------------------------------- vocabulary of the claims
\* A mut_elems call has returned and its Result is still held.
Called == op = "mut_elems" /\ pc \in {"live", "failed"}

\* List-positions (0-based) of an index list.
Positions(ix) == 0..(Len(ix) - 1)

\* Some pair of entries is identical.
HasDup(ix) == \E j, k \in Positions(ix) : j < k /\ At(ix, j) = At(ix, k)

\* Some entry is not a position of a slice of length L.
HasOutOfRange(ix, L) == \E k \in Positions(ix) : At(ix, k) >= L

\* List-positions whose value also occurs at an earlier list-position.
Repeats(ix) == {k \in Positions(ix) : \E j \in Positions(ix) : j < k /\ At(ix, j) = At(ix, k)}

Least(S) == CHOOSE m \in S : \A o \in S : m <= o

\* [0, 1, ..., L-1]
Iota(L) == [i \in 1..L |-> i - 1]

\* C1: when mut_elems returns Ok the handle set has exactly N entries, entry
\* i refers to position indices[i] of the slice, and no two entries refer to
\* the same position; whenever handles are live no two of them alias.
C1_HandlesExclusive ==
    /\ (pc = "live" /\ op = "mut_elems") =>
          /\ result.kind = "Ok"
          /\ Len(es) = Len(indices)
          /\ \A i \in Positions(indices) :
                At(es, i) = At(indices, i) /\ At(es, i) \in 0..(Len(target) - 1)
    /\ pc = "live" =>
          \A i, j \in 1..Len(es) : i # j => es[i] # es[j]

C1_Witness ==
    pc = "live" /\ op = "mut_elems" /\ Len(es) = 3 /\ written[1] # NoWrite

\* C2: mut_elems returns an error iff some pair of entries is identical or
\* some entry is >= L; otherwise it returns Ok with the N handles; there is
\* no third outcome and no partial handle set.
C2_ErrorIffInvalid ==
    Called =>
       /\ result.kind \in {"Ok", "IndicesOverlap", "IndexBound"}
       /\ (result.kind # "Ok") <=>
             (HasDup(indices) \/ HasOutOfRange(indices, Len(target)))
       /\ result.kind = "Ok" =>
             pc = "live" /\ es = result.handles /\ Len(es) = Len(indices)
       /\ result.kind # "Ok" => pc = "failed" /\ es = <<>>

C2_Witness ==
    /\ Called /\ result.kind = "IndicesOverlap"
    /\ Len(indices) = 2 /\ ~HasOutOfRange(indices, Len(target))

\* C3: whenever mut_elems returns IndicesOverlap{first, second, index}, for
\* any N >= 2, first and second are list-positions with first < second and
\* indices[first] = indices[second] = index.
C3_OverlapNamesPositions ==
    (Called /\ result.kind = "IndicesOverlap") =>
       /\ result.first \in Positions(indices)
       /\ result.second \in Positions(indices)
       /\ result.first < result.second
       /\ At(indices, result.first) = result.index
       /\ At(indices, result.second) = result.index

\* C4: for N > 2 and an index list with a repeated value, the result is
\* IndicesOverlap where second is the smallest list-position whose value
\* occurs earlier, first is the earliest list-position of that value, and
\* index is the value.
C4_FirstConflict ==
    (Called /\ Len(indices) > 2 /\ HasDup(indices)) =>
       LET s == Least(Repeats(indices))
           f == Least({j \in Positions(indices) : At(indices, j) = At(indices, s)})
       IN result = IndicesOverlap(f, s, At(indices, s))

C4_Witness ==
    Called /\ indices = <<1, 2, 1>> /\ result = IndicesOverlap(0, 2, 1)

\* C5: distinctness is checked before bounds: a list with both a repeated
\* value and an out-of-range value gives IndicesOverlap, and IndexBound is
\* returned only for pairwise distinct lists.
C5_DistinctnessFirst ==
    Called =>
       /\ (HasDup(indices) /\ HasOutOfRange(indices, Len(target))) =>
             result.kind = "IndicesOverlap"
       /\ result.kind = "IndexBound" => ~HasDup(indices)

C5_Witness ==
    /\ Called /\ Len(target) = 2 /\ indices = <<3, 0, 0>>
    /\ result.kind = "IndicesOverlap"

\* C6: for a pairwise distinct list with an entry >= L the result is
\* IndexBound{position, index, length} with position the lowest
\* list-position out of range, index its value and length = L.
C6_FirstOutOfRange ==
    (Called /\ ~HasDup(indices) /\ HasOutOfRange(indices, Len(target))) =>
       LET p == Least({k \in Positions(indices) : At(indices, k) >= Len(target)})
       IN result = IndexBound(p, At(indices, p), Len(target))

C6_Witness ==
    /\ Called /\ Len(target) = 3 /\ indices = <<3>>
    /\ result = IndexBound(0, 3, 3)

\* C7: after a successful mut_elems call, writes through any of the handles
\* and the drop of all handles, the slice has its length of before the
\* call, position indices[i] holds the value last written through handle i,
\* and every other position holds what it held before the call.
C7_WritesLandAtIndices ==
    [][(Drop /\ op = "mut_elems") =>
          /\ Len(target') = Len(pre)
          /\ \A i \in Positions(indices) :
                At(written, i) # NoWrite =>
                   At(target', At(indices, i)) \in At(written, i)
          /\ \A p \in 0..(Len(pre) - 1) :
                (~\E i \in Positions(indices) :
                     At(indices, i) = p /\ At(written, i) # NoWrite)
                => At(target', p) = At(pre, p)]_vars

C7_Witness ==
    /\ pc = "live" /\ op = "mut_elems" /\ pre = <<1, 2, 3>>
    /\ indices = <<2, 0>> /\ written = <<{5}, {7}>> /\ target = <<7, 2, 5>>

\* C8: as_mut_elems and as_mut_elems_vec return exactly L handles, handle i
\* referring to position i: the handle set mut_elems returns for
\* [0, 1, ..., L-1], for every L including 0.
C8_SelectAll ==
    (pc = "live" /\ op \in {"as_mut_elems", "as_mut_elems_vec"}) =>
       /\ Len(es) = Len(target)
       /\ \A i \in Positions(es) : At(es, i) = i
       /\ mut_elems(target, Iota(Len(target))) = Ok(es)

C8_Witness ==
    pc = "live" /\ op = "as_mut_elems_vec" /\ Len(es) = 3 /\ written = <<NoWrite, {5}, {7}>>

\* The general distinctness scan followed by the bounds check, whatever N.
GeneralPath(self, ix) ==
    LET d == ScanSeen(ix, 0, NewSeen(ix)) IN
    IF d.kind # "none" THEN d ELSE BoundsAndBuild(self, ix)

\* C9: a call with N = 0 succeeds with an empty handle set for every L; for
\* N <= 1 the result is the one the general scan followed by the bounds
\* check gives: N = 1 succeeds iff indices[0] < L, otherwise IndexBound at
\* position 0.
C9_SmallN ==
    (Called /\ Len(indices) <= 1) =>
       /\ result = GeneralPath(target, indices)
       /\ Len(indices) = 0 => result = Ok(<<>>) /\ pc = "live" /\ es = <<>>
       /\ Len(indices) = 1 =>
             IF At(indices, 0) < Len(target)
             THEN result = Ok(<<At(indices, 0)>>)
             ELSE result = IndexBound(0, At(indices, 0), Len(target))

C9_Witness ==
    Called /\ indices = <<>> /\ target = <<>> /\ result = Ok(<<>>)

\* C10: a call that returns an error leaves the slice as it was and
\* produces no handle; and the outcome of a call is the outcome of the same
\* index list on any slice of the same length, whatever was called and
\* written before.  (The steps from "idle" to op = "mut_elems" are the calls.)
C10_AtomicStateless ==
    [][(pc = "idle" /\ op' = "mut_elems") =>
          /\ result' = mut_elems(TestArray(Len(target)), indices')
          /\ result'.kind # "Ok" =>
                target' = target /\ es' = <<>> /\ pc' = "failed"]_vars

C10_Witness ==
    /\ Called /\ pc = "failed" /\ target = <<5, 7, 5>>
    /\ indices = <<1, 3>>

====
